---- MODULE Spec2Model ----
(***************************************************************************)
(* State-machine model of pints' NestedEllipsoidSampler                    *)
(* (src/pints/_nested/_ellipsoid.py): the hyper-parameter setters, the     *)
(* ask step with its ellipsoid-refit schedule and phase switch, and the    *)
(* report (tell) step of the nested-sampling base class.                   *)
(*                                                                         *)
(* The base class pints.NestedSampler is not part of the sources at hand:  *)
(* the iteration counter's advance, the active-set replacement rule, the   *)
(* ask/tell protocol check and set_active_points_rate are modelled from    *)
(* the specification's section 4.3 and section 7.                          *)
(*                                                                         *)
(* Real-valued arguments (enlargement factor, the argument handed to       *)
(* set_ellipsoid_update_gap before int()) are fixed-point numbers with     *)
(* Resolution units per 1.0.  rejection_samples, the stored update gap and *)
(* the iteration counter are plain integers.  Parameter vectors have       *)
(* dimension 1 and are drawn from Params.                                  *)
(*                                                                         *)
(* SpecABC models ABCRejection (src/pints/_abc/_abc_rejection.py) on its   *)
(* own variables; under Spec those variables rest, and the other way round.*)
(***************************************************************************)
EXTENDS Integers, Sequences, FiniteSets

\* ---------------------------------------------------------------- bounds
Resolution == 2      \* fixed-point units per 1.0 of a real-valued argument
MaxIter == 5         \* the iteration counter is capped at MaxIter
NActive == 2         \* number of active points
MaxLL == 1           \* log-likelihoods range over 0..MaxLL

\* ------------------------------------------------------ program constants
DefaultRejectionSamples == 1000   \* set_rejection_samples(rejection_samples=1000)
DefaultEllipsoidUpdateGap == 20   \* set_ellipsoid_update_gap(ellipsoid_update_gap=20)

One == Resolution                           \* the real number 1
DefaultEnlargementFactor == (3 * Resolution) \div 2   \* 1.5

\* The parameter vectors (dimension 1) the prior and the ellipsoid draw from.
Params == {1, 2}
LogLikelihoods == 0..MaxLL
Points == [x : Params, ll : LogLikelihoods]

\* Arguments the callers hand to the setters.
RejectionArgs == {-1, 0, 1, 2, 3}
GapArgs == {-1, One, One + 1, 2 * One, 2 * One + 1, 3 * One}
EnlargementArgs == {One - 1, One, DefaultEnlargementFactor, 2 * One}
RateArgs == {1, 2}

NoEllipsoid == [fitted |-> FALSE, valid |-> FALSE, of |-> {}]
NoProposal == [x |-> 0]

VARIABLES
  i,                     \* self._i, the iteration counter
  m_active,              \* self._m_active, the active points
  rejection_samples,     \* self._rejection_samples
  ellipsoid_update_gap,  \* self._ellipsoid_update_gap
  enlargement_factor,    \* self._enlargement_factor
  active_points_rate,    \* the active-point rate of the base class
  ellipsoid,             \* self._A, self._centroid
  pending,               \* the proposal handed out by ask and not yet reported
  top,                   \* history: the NActive highest log-likelihoods seen
  ret,                   \* the last call and how it ended
  threshold,             \* ABCRejection._threshold
  xs,                    \* ABCRejection._xs
  abc_ret,               \* the last ABCRejection call and what it returned
  cloud,                 \* _minimum_volume_ellipsoid: points (d = 1)
  u,                     \* _minimum_volume_ellipsoid: the weight vector
  mvee,                  \* _minimum_volume_ellipsoid: where the loop stands
  draw                   \* _reject_ellipsoid_sample: its arguments and result (d = 2)

sampler_vars == <<i, m_active, rejection_samples, ellipsoid_update_gap,
                  enlargement_factor, active_points_rate, ellipsoid, pending,
                  top, ret>>

abc_vars == <<threshold, xs, abc_ret>>

mvee_vars == <<cloud, u, mvee>>

vars == <<sampler_vars, abc_vars, mvee_vars, draw>>

hyper == <<active_points_rate, ellipsoid_update_gap, enlargement_factor,
           rejection_samples>>

\* ---------------------------------------------------------------- helpers

\* Python's int() of a fixed-point real: truncation towards zero.
int(v) == IF v >= 0 THEN v \div Resolution ELSE -((-v) \div Resolution)

\* What the last call was, its argument, and how it ended.
Ret(op, arg, outcome) ==
  [op |-> op, arg |-> arg, outcome |-> outcome, refit |-> FALSE, kind |-> "none"]

\* np.min over the log-likelihood column of the active set.
MinLL(m) == CHOOSE v \in {m[k].ll : k \in DOMAIN m} :
              \A k \in DOMAIN m : v <= m[k].ll

\* np.argmin: the first index holding the minimum.
ArgMin(m) == CHOOSE k \in DOMAIN m :
               /\ m[k].ll = MinLL(m)
               /\ \A j \in DOMAIN m : m[j].ll = MinLL(m) => k <= j

\* The sequence s (of integers) in non-increasing order.
RECURSIVE SortDesc(_)
SortDesc(s) ==
  IF s = <<>> THEN <<>>
  ELSE LET k == CHOOSE a \in DOMAIN s : \A b \in DOMAIN s : s[a] >= s[b]
           rest == [j \in 1..(Len(s) - 1) |-> IF j < k THEN s[j] ELSE s[j + 1]]
       IN <<s[k]>> \o SortDesc(rest)

LLs(m) == [k \in DOMAIN m |-> m[k].ll]

\* The n highest values among those of s and v.
TopWith(s, v) == SubSeq(SortDesc(Append(s, v)), 1, Len(s))

\* self._xs = None
None == [none |-> TRUE, v |-> <<>>]

\* A list (of samples, or of distances) as a value.
List(v) == [none |-> FALSE, v |-> v]

\* The ABCRejection variables while the nested sampler is the one in use.
AbcAtRest ==
  /\ threshold = 1
  /\ xs = None
  /\ abc_ret = [op |-> "none", arg |-> [scalar |-> TRUE, v |-> 0], outcome |-> "ok", value |-> None]

\* The variables of _minimum_volume_ellipsoid while no fit is being followed.
MveeAtRest ==
  /\ cloud = <<>>
  /\ u = <<>>
  /\ mvee = [at |-> "rest", steps |-> 0, jdx |-> 0, step_size |-> <<0, 1>>,
             c |-> <<0, 1>>, A |-> <<0, 1>>]

\* The variable of _reject_ellipsoid_sample while no draw is being followed.
DrawAtRest ==
  draw = [at |-> "rest", f |-> <<1, 1>>,
          A |-> <<<<<<1, 1>>, <<0, 1>>>>, <<<<0, 1>>, <<1, 1>>>>>>,
          cent |-> <<<<0, 1>>, <<0, 1>>>>, x |-> <<<<0, 1>>, <<0, 1>>>>]

\* -------------------------------------------------------------- the model

\* NestedEllipsoidSampler.__init__: the three setters run with their defaults.
Init ==
  /\ i = 0
  /\ m_active \in [1..NActive -> Points]
  /\ rejection_samples = DefaultRejectionSamples
  /\ ellipsoid_update_gap = DefaultEllipsoidUpdateGap
  /\ enlargement_factor = DefaultEnlargementFactor
  /\ active_points_rate \in RateArgs
  /\ ellipsoid = NoEllipsoid
  /\ pending = NoProposal
  /\ top = SortDesc(LLs(m_active))
  /\ ret = Ret("init", 0, "ok")
  /\ AbcAtRest
  /\ MveeAtRest
  /\ DrawAtRest

\* A setter that lets the factor 1 through.
set_enlargement_factor_nonstrict(v) ==
  /\ IF v < One
       THEN /\ ret' = Ret("set_enlargement_factor", v, "ValueError")
            /\ UNCHANGED enlargement_factor
       ELSE /\ enlargement_factor' = v
            /\ ret' = Ret("set_enlargement_factor", v, "ok")
  /\ UNCHANGED <<i, m_active, rejection_samples, ellipsoid_update_gap,
                 active_points_rate, ellipsoid, pending, top>>

\* set_enlargement_factor(enlargement_factor): lines 112-114.
set_enlargement_factor(v) ==
  /\ IF v <= One
       THEN /\ ret' = Ret("set_enlargement_factor", v, "ValueError")
            /\ UNCHANGED enlargement_factor
       ELSE /\ enlargement_factor' = v
            /\ ret' = Ret("set_enlargement_factor", v, "ok")
  /\ UNCHANGED <<i, m_active, rejection_samples, ellipsoid_update_gap,
                 active_points_rate, ellipsoid, pending, top>>

set_rejection_samples(v) ==
  /\ IF v < 0
       THEN /\ ret' = Ret("set_rejection_samples", v, "ValueError")
            /\ UNCHANGED rejection_samples
       ELSE /\ rejection_samples' = v
            /\ ret' = Ret("set_rejection_samples", v, "ok")
  /\ UNCHANGED <<i, m_active, ellipsoid_update_gap, enlargement_factor,
                 active_points_rate, ellipsoid, pending, top>>

set_ellipsoid_update_gap(v) ==
  /\ IF int(v) <= 1
       THEN /\ ret' = Ret("set_ellipsoid_update_gap", v, "ValueError")
            /\ UNCHANGED ellipsoid_update_gap
       ELSE /\ ellipsoid_update_gap' = int(v)
            /\ ret' = Ret("set_ellipsoid_update_gap", v, "ok")
  /\ UNCHANGED <<i, m_active, rejection_samples, enlargement_factor,
                 active_points_rate, ellipsoid, pending, top>>

n_hyper_parameters == 3

\* A set_hyper_parameters that reads the vector as [rate, enlargement, gap].
set_hyper_parameters_swapped(x) ==
  /\ active_points_rate' = x[1]
  /\ IF int(x[3]) <= 1
       THEN /\ ret' = Ret("set_hyper_parameters", x, "ValueError")
            /\ UNCHANGED <<ellipsoid_update_gap, enlargement_factor>>
       ELSE /\ ellipsoid_update_gap' = int(x[3])
            /\ IF x[2] <= One
                 THEN /\ ret' = Ret("set_hyper_parameters", x, "ValueError")
                      /\ UNCHANGED enlargement_factor
                 ELSE /\ enlargement_factor' = x[2]
                      /\ ret' = Ret("set_hyper_parameters", x, "ok")
  /\ UNCHANGED <<i, m_active, rejection_samples, ellipsoid, pending, top>>

\* set_hyper_parameters(x): the three setters run one after the other on
\* x[0], x[1], x[2] (here x[1], x[2], x[3]); the first that raises ends the
\* call, and what the earlier ones stored stays stored.
set_hyper_parameters(x) ==
  /\ active_points_rate' = x[1]
  /\ IF int(x[2]) <= 1
       THEN /\ ret' = Ret("set_hyper_parameters", x, "ValueError")
            /\ UNCHANGED <<ellipsoid_update_gap, enlargement_factor>>
       ELSE /\ ellipsoid_update_gap' = int(x[2])
            /\ IF x[3] <= One
                 THEN /\ ret' = Ret("set_hyper_parameters", x, "ValueError")
                      /\ UNCHANGED enlargement_factor
                 ELSE /\ enlargement_factor' = x[3]
                      /\ ret' = Ret("set_hyper_parameters", x, "ok")
  /\ UNCHANGED <<i, m_active, rejection_samples, ellipsoid, pending, top>>

\* A point cloud of dimension d = 1 with fewer than d + 1 distinct points: the
\* scatter matrix X of line 174 and the covariance of lines 183-186 are
\* singular.
Degenerate(points) == Cardinality(points) < 2

\* _minimum_volume_ellipsoid(points): the ways the call can end.  The fitted
\* (A, c) is determined by the point cloud and is kept here as that cloud.
\* Nothing tests the cloud: on a degenerate one la.inv (lines 175, 183) raises
\* LinAlgError when the rounded matrix is exactly singular, and otherwise
\* returns the inverse of a matrix that is singular but for rounding, so that
\* the (A, c) returned is not a valid ellipsoid.
minimum_volume_ellipsoid(points) ==
  IF Degenerate(points)
    THEN {[raised |-> TRUE, e |-> NoEllipsoid],
          [raised |-> FALSE, e |-> [fitted |-> TRUE, valid |-> FALSE, of |-> points]]}
    ELSE {[raised |-> FALSE, e |-> [fitted |-> TRUE, valid |-> TRUE, of |-> points]]}

\* self._m_active[:, :self._dimension]: the parameter columns of the active set.
ActiveParams(m) == {m[k].x : k \in DOMAIN m}

\* line 84: (i + 1) % self._rejection_samples == 0  (R # 0)
RefitAtEndOfRejection(it, R) == (it + 1) % R = 0

\* A gap test that counts the gap from R instead of R - 1.
RefitAtGap_shifted(it, R, G) == it > R /\ (it - R) % G = 0

\* lines 88-90: i > R and (i + 1 - R) % G == 0
RefitAtGap(it, R, G) == it > R /\ (it + 1 - R) % G = 0

\* A schedule that lost its first test: refits on the gap only.
Refits_gap_only(it, R, G) == RefitAtGap(it, R, G)

\* A schedule that refits on every ask.
Refits_always(it, R, G) == TRUE

\* lines 84-92: the if / elif chain that decides whether ask refits.
Refits(it, R, G) ==
  IF RefitAtEndOfRejection(it, R) THEN TRUE ELSE RefitAtGap(it, R, G)

\* A phase test that keeps the prior one iteration too long.
InRejectionPhase_inclusive(it, R) == it <= R

\* line 94: i < self._rejection_samples selects the prior draw.
InRejectionPhase(it, R) == it < R

\* An ask that counts the iteration itself.
IterationAfterAsk_counting(it) == IF it < MaxIter THEN it + 1 ELSE it

\* line 80: ask reads self._i into a local and never assigns it.
IterationAfterAsk(it) == it

\* The values self._log_prior.sample()[0] can return.
PriorSample == Params

\* The ways _reject_ellipsoid_sample(enlargement_factor, A, centroid) can end:
\* a point, or, on an (A, c) that is no valid ellipsoid, also the LinAlgError
\* of la.inv (line 195) or la.eig (line 209).
reject_ellipsoid_sample(f, e) ==
  {[raised |-> FALSE, x |-> p] : p \in Params}
    \cup (IF e.valid THEN {} ELSE {[raised |-> TRUE, x |-> 0]})

\* What an ask that got past the modulo of line 84 leaves in ret.
AskRet(outcome, refit, kind) ==
  [op |-> "ask", arg |-> 0, outcome |-> outcome, refit |-> refit, kind |-> kind]

\* lines 94-103 of ask, with e the ellipsoid after the refit test.
Propose(e, refit) ==
  IF InRejectionPhase(i, rejection_samples)
    THEN \E x \in PriorSample :
           /\ pending' = [x |-> x]
           /\ ret' = AskRet("returned", refit, "prior")
    ELSE IF ~e.fitted
      THEN /\ ret' = AskRet("UnfittedError", refit, "ellipsoid")
           /\ UNCHANGED pending
      ELSE \E s \in reject_ellipsoid_sample(enlargement_factor, e) :
             IF s.raised
               THEN /\ ret' = AskRet("LinAlgError", refit, "ellipsoid")
                    /\ UNCHANGED pending
               ELSE /\ pending' = [x |-> s.x]
                    /\ ret' = AskRet("returned", refit, "ellipsoid")

\* ask(): with rejection_samples == 0 the modulo of line 84 raises
\* ZeroDivisionError before anything is assigned; a refit that raises leaves
\* self._A and self._centroid as they were; reading self._A when no ellipsoid
\* was ever fitted raises as well.
ask ==
  /\ IF rejection_samples = 0
       THEN /\ ret' = Ret("ask", 0, "ZeroDivisionError")
            /\ UNCHANGED <<ellipsoid, pending>>
       ELSE IF Refits(i, rejection_samples, ellipsoid_update_gap)
         THEN \E fit \in minimum_volume_ellipsoid(ActiveParams(m_active)) :
                IF fit.raised
                  THEN /\ ret' = AskRet("LinAlgError", TRUE, "none")
                       /\ UNCHANGED <<ellipsoid, pending>>
                  ELSE /\ ellipsoid' = fit.e
                       /\ Propose(fit.e, TRUE)
         ELSE /\ UNCHANGED ellipsoid
              /\ Propose(ellipsoid, FALSE)
  /\ i' = IterationAfterAsk(i)
  /\ UNCHANGED <<m_active, rejection_samples, ellipsoid_update_gap,
                 enlargement_factor, active_points_rate, top>>

\* A protocol check that never fires.
Outstanding_always(p) == TRUE

\* Whether a proposal was handed out and not yet reported.
Outstanding(p) == p # NoProposal

\* An acceptance test that lets ties through.
Accepts_ties(fx, m) == fx >= MinLL(m)

\* The proposal is accepted when its log-likelihood is greater than the
\* minimum of the active set.
Accepts(fx, m) == fx > MinLL(m)

\* A replacement that always overwrites the first member.
Lowest_first(m) == 1

\* The member the accepted proposal replaces: the lowest-likelihood one.
Lowest(m) == ArgMin(m)

\* report / tell(log_likelihood) of the base class: a protocol error without an
\* outstanding proposal; otherwise the proposal replaces the lowest-likelihood
\* member when its log-likelihood is greater than the minimum, and the iteration
\* counter advances either way.
tell(fx) ==
  IF ~Outstanding(pending)
    THEN /\ ret' = Ret("tell", fx, "ProtocolError")
         /\ UNCHANGED <<i, m_active, rejection_samples, ellipsoid_update_gap,
                        enlargement_factor, active_points_rate, ellipsoid,
                        pending, top>>
    ELSE /\ i < MaxIter
         /\ IF Accepts(fx, m_active)
              THEN /\ m_active' = [m_active EXCEPT ![Lowest(m_active)] =
                                     [x |-> pending.x, ll |-> fx]]
                   /\ ret' = Ret("tell", fx, "accepted")
              ELSE /\ UNCHANGED m_active
                   /\ ret' = Ret("tell", fx, "none")
         /\ i' = i + 1
         /\ pending' = NoProposal
         /\ top' = TopWith(top, fx)
         /\ UNCHANGED <<rejection_samples, ellipsoid_update_gap,
                        enlargement_factor, active_points_rate, ellipsoid>>

\* The driver sets the hyper-parameters before it issues the first proposal:
\* they persist for the lifetime of a run.
Configuring == i = 0 /\ pending = NoProposal

Next ==
  \/ /\ Configuring /\ \E v \in EnlargementArgs : set_enlargement_factor(v)
     /\ UNCHANGED <<abc_vars, mvee_vars, draw>>
  \/ /\ Configuring /\ \E v \in RejectionArgs : set_rejection_samples(v)
     /\ UNCHANGED <<abc_vars, mvee_vars, draw>>
  \/ /\ Configuring /\ \E v \in GapArgs : set_ellipsoid_update_gap(v)
     /\ UNCHANGED <<abc_vars, mvee_vars, draw>>
  \/ /\ Configuring /\ \E x \in RateArgs \X GapArgs \X EnlargementArgs :
                          set_hyper_parameters(x)
     /\ UNCHANGED <<abc_vars, mvee_vars, draw>>
  \/ ask /\ UNCHANGED <<abc_vars, mvee_vars, draw>>
  \/ (\E fx \in LogLikelihoods : tell(fx)) /\ UNCHANGED <<abc_vars, mvee_vars, draw>>

Spec == Init /\ [][Next]_vars

\* ------------------------------------------------------------ ABCRejection

MaxSamples == 2      \* ask(n_samples) is called with n_samples in 1..MaxSamples
MaxDistance == 2     \* the distances handed to tell range over 0..MaxDistance

Distances == 0..MaxDistance
ThresholdArgs == {-1, 0, 1, 2}

\* The lists of at most n elements of S.
ListsUpTo(S, n) == UNION {[1..k -> S] : k \in 0..n}

\* The nested sampler's variables while ABCRejection is the one in use.
SamplerAtRest ==
  /\ i = 0
  /\ m_active = [k \in 1..NActive |-> [x |-> 1, ll |-> 0]]
  /\ rejection_samples = DefaultRejectionSamples
  /\ ellipsoid_update_gap = DefaultEllipsoidUpdateGap
  /\ enlargement_factor = DefaultEnlargementFactor
  /\ active_points_rate = 1
  /\ ellipsoid = NoEllipsoid
  /\ pending = NoProposal
  /\ top = SortDesc(LLs(m_active))
  /\ ret = Ret("init", 0, "ok")

\* An argument of a call: a scalar a, or the list a.
Scalar(a) == [scalar |-> TRUE, v |-> a]
ListArg(a) == [scalar |-> FALSE, v |-> a]

AbcRet(op, arg, outcome, value) ==
  [op |-> op, arg |-> arg, outcome |-> outcome, value |-> value]

\* ABCRejection.__init__(log_prior, threshold): the threshold is stored as
\* given, and self._xs = None.
InitABC ==
  /\ threshold \in ThresholdArgs
  /\ xs = None
  /\ abc_ret = AbcRet("init", Scalar(0), "ok", None)
  /\ SamplerAtRest
  /\ MveeAtRest
  /\ DrawAtRest

\* ABCRejection.ask(n_samples)
abc_ask(n) ==
  /\ \E v \in [1..n -> Params] :
       /\ xs' = List(v)
       /\ abc_ret' = AbcRet("ask", Scalar(n), "ok", List(v))
  /\ UNCHANGED threshold

\* An acceptance test that lets a distance equal to the threshold through.
Below_inclusive(a, t) == a <= t

\* lines 48 and 54: a < self._threshold
Below(a, t) == a < t

\* line 52: [self._xs[c] for c, x in enumerate(accepted) if x], for the list v
\* of samples.
RECURSIVE Selected(_, _, _)
Selected(v, accepted, c) ==
  IF c > Len(accepted) THEN <<>>
  ELSE IF accepted[c] THEN <<v[c]>> \o Selected(v, accepted, c + 1)
       ELSE Selected(v, accepted, c + 1)

\* ABCRejection.tell(fx) with a scalar fx (lines 53-57)
abc_tell_scalar(fx) ==
  /\ IF Below(fx, threshold)
       THEN abc_ret' = AbcRet("tell", Scalar(fx), "ok", xs)
       ELSE abc_ret' = AbcRet("tell", Scalar(fx), "ok", None)
  /\ UNCHANGED <<threshold, xs>>

\* ABCRejection.tell(fx) with a list fx (lines 47-52): subscripting
\* self._xs raises TypeError while it is None, and IndexError past its end.
abc_tell_list(fx) ==
  /\ LET accepted == [c \in 1..Len(fx) |-> Below(fx[c], threshold)]
         hits == {c \in 1..Len(fx) : accepted[c]}
     IN IF hits = {}
          THEN abc_ret' = AbcRet("tell", ListArg(fx), "ok", None)
          ELSE IF xs.none
            THEN abc_ret' = AbcRet("tell", ListArg(fx), "TypeError", None)
            ELSE IF \E c \in hits : c > Len(xs.v)
              THEN abc_ret' = AbcRet("tell", ListArg(fx), "IndexError", None)
              ELSE abc_ret' = AbcRet("tell", ListArg(fx), "ok",
                                     List(Selected(xs.v, accepted, 1)))
  /\ UNCHANGED <<threshold, xs>>

\* ABCRejection.set_threshold(threshold)
set_threshold(t) ==
  /\ IF t <= 0
       THEN /\ abc_ret' = AbcRet("set_threshold", Scalar(t), "ValueError", None)
            /\ UNCHANGED threshold
       ELSE /\ threshold' = t
            /\ abc_ret' = AbcRet("set_threshold", Scalar(t), "ok", None)
  /\ UNCHANGED xs

NextABC ==
  \/ (\E n \in 1..MaxSamples : abc_ask(n)) /\ UNCHANGED <<sampler_vars, mvee_vars, draw>>
  \/ (\E fx \in Distances : abc_tell_scalar(fx)) /\ UNCHANGED <<sampler_vars, mvee_vars, draw>>
  \/ (\E fx \in ListsUpTo(Distances, MaxSamples) : abc_tell_list(fx))
       /\ UNCHANGED <<sampler_vars, mvee_vars, draw>>
  \/ (\E t \in ThresholdArgs : set_threshold(t)) /\ UNCHANGED <<sampler_vars, mvee_vars, draw>>

SpecABC == InitABC /\ [][NextABC]_vars

\* ------------------------------------------------------------- properties

TypeOK ==
  /\ i \in 0..MaxIter
  /\ m_active \in [1..NActive -> Points]
  /\ rejection_samples \in RejectionArgs \cup {DefaultRejectionSamples}
  /\ ellipsoid_update_gap \in Int
  /\ enlargement_factor \in EnlargementArgs
  /\ active_points_rate \in RateArgs
  /\ ellipsoid.fitted \in BOOLEAN /\ ellipsoid.valid \in BOOLEAN
  /\ ellipsoid.of \subseteq Params
  /\ pending = NoProposal \/ pending.x \in Params
  /\ Len(top) = NActive

\* The last call was an ask that got past the refit test.
Asked == ret.op = "ask" /\ ret.outcome # "ZeroDivisionError"

\* The refit iterations of the schedule R-1, R-1+G, R-1+2G, ...
OnSchedule(it, R, G) == \E k \in 0..MaxIter : it = R - 1 + k * G

\* C1: with rejection_samples = R > 0 and ellipsoid_update_gap = G > 1, ask
\* refits the ellipsoid at iteration i if and only if i = R-1 + k*G for some
\* k >= 0: at R-1 and every G iterations thereafter, no more and no fewer.
C1_RefitExactlyOnSchedule ==
  (Asked /\ rejection_samples > 0) =>
    (ret.refit <=> OnSchedule(i, rejection_samples, ellipsoid_update_gap))

\* C2: for rejection_samples = R > 0, ask returns a draw from the prior at
\* every iteration i in 0..R-1 and a draw from the enlarged ellipsoid at every
\* iteration i >= R; the phase depends on the iteration counter alone.
C2_PhaseByIteration ==
  (ret.op = "ask" /\ rejection_samples > 0) =>
    /\ ret.outcome # "UnfittedError"
    /\ ret.outcome = "returned" =>
         /\ pending.x \in Params
         /\ i \in 0..(rejection_samples - 1) => ret.kind = "prior"
         /\ i >= rejection_samples => ret.kind = "ellipsoid"

\* An ask in the ellipsoid phase that follows asks in the rejection phase.
C2_Witness ==
  /\ ret.op = "ask" /\ ret.outcome = "returned" /\ ret.kind = "ellipsoid"
  /\ rejection_samples = 2 /\ i = 3

\* C3: set_hyper_parameters(x) is atomic: when a component of x is invalid the
\* call fails and every hyper-parameter keeps the value it had before the call,
\* even when earlier components of x were valid.  (Stated for the two
\* hyper-parameters whose setters are at hand; the active-point rate, set
\* first, is overwritten in the same way.)
C3_SetHyperParametersAtomic ==
  [][(ret'.op = "set_hyper_parameters" /\ ret'.outcome = "ValueError") =>
       UNCHANGED <<ellipsoid_update_gap, enlargement_factor>>]_vars

\* C4: with rejection_samples == 0 ask does not fail with a division by zero:
\* at iteration 0 it fits an ellipsoid and returns an ellipsoid draw.
C4_AskWithZeroRejectionSamples ==
  (ret.op = "ask" /\ rejection_samples = 0) =>
    /\ ret.outcome # "ZeroDivisionError"
    /\ i = 0 => (ret.outcome = "returned" /\ ret.refit /\ ret.kind = "ellipsoid")

\* A step that reports an outstanding proposal.
Reports == ret'.op = "tell" /\ pending # NoProposal

\* C5: report(log_likelihood) accepts the pending proposal if and only if its
\* log-likelihood is strictly greater than the current minimum of the active
\* set; on acceptance exactly one member, a lowest-likelihood one, is replaced
\* by the proposal and all others are unchanged; on rejection the active set is
\* unchanged and the result is none.
C5_ReportAcceptsIffGreater ==
  [][Reports =>
       LET fx == ret'.arg
           low == MinLL(m_active)
       IN /\ ret'.outcome \in {"accepted", "none"}
          /\ ret'.outcome = "accepted" <=> fx > low
          /\ ret'.outcome = "accepted" =>
                \E k \in 1..NActive :
                  /\ m_active[k].ll = low
                  /\ m_active'[k] = [x |-> pending.x, ll |-> fx]
                  /\ \A j \in (1..NActive) \ {k} : m_active'[j] = m_active[j]
          /\ ret'.outcome = "none" => m_active' = m_active]_vars

\* A proposal was accepted into the active set.
C5_Witness ==
  /\ ret.op = "tell" /\ ret.outcome = "accepted"
  /\ \E k \in 1..NActive : m_active[k].ll = ret.arg

\* C6: after any sequence of propose/report pairs the active set has the size
\* it started with and holds the NActive highest log-likelihoods among the
\* initial members and all proposals reported so far; its minimum
\* log-likelihood never decreases.
C6_ActiveSetKeepsTheBest ==
  /\ [](/\ DOMAIN m_active = 1..NActive
        /\ SortDesc(LLs(m_active)) = top)
  /\ [][MinLL(m_active') >= MinLL(m_active)]_vars

\* At least two pairs were completed, the last proposal was accepted, and no
\* member of the active set is left at the lowest log-likelihood.
C6_Witness ==
  /\ ret.op = "tell" /\ ret.outcome = "accepted" /\ i >= 2
  /\ MinLL(m_active) > 0

HyperValid ==
  /\ enlargement_factor > One
  /\ ellipsoid_update_gap > 1
  /\ rejection_samples >= 0

\* C7: each setter rejects an invalid value (enlargement factor <= 1,
\* int(update gap) <= 1, rejection samples < 0) with an error and without
\* changing any hyper-parameter, and accepts and stores every valid value (the
\* gap as an integer); so after construction and any sequence of setter calls
\* enlargement_factor() > 1, ellipsoid_update_gap() > 1 and
\* rejection_samples() >= 0.
C7_SettersValidate ==
  /\ []HyperValid
  /\ [][/\ ret'.op = "set_enlargement_factor" =>
             IF ret'.arg <= One
               THEN ret'.outcome = "ValueError" /\ UNCHANGED hyper
               ELSE /\ ret'.outcome = "ok"
                    /\ enlargement_factor' = ret'.arg
                    /\ UNCHANGED <<active_points_rate, ellipsoid_update_gap,
                                   rejection_samples>>
        /\ ret'.op = "set_ellipsoid_update_gap" =>
             IF int(ret'.arg) <= 1
               THEN ret'.outcome = "ValueError" /\ UNCHANGED hyper
               ELSE /\ ret'.outcome = "ok"
                    /\ ellipsoid_update_gap' = int(ret'.arg)
                    /\ UNCHANGED <<active_points_rate, enlargement_factor,
                                   rejection_samples>>
        /\ ret'.op = "set_rejection_samples" =>
             IF ret'.arg < 0
               THEN ret'.outcome = "ValueError" /\ UNCHANGED hyper
               ELSE /\ ret'.outcome = "ok"
                    /\ rejection_samples' = ret'.arg
                    /\ UNCHANGED <<active_points_rate, ellipsoid_update_gap,
                                   enlargement_factor>>]_vars

\* set_enlargement_factor(1) was refused after another value had been stored.
C7_Witness ==
  /\ ret.op = "set_enlargement_factor" /\ ret.arg = One
  /\ ret.outcome = "ValueError"
  /\ enlargement_factor = 2 * One

\* C8: calling report before any propose, or a second time for the same
\* proposal, fails with a protocol-violation error and changes neither the
\* active set nor the iteration counter.
C8_ReportNeedsProposal ==
  /\ [](ret.op = "tell" => pending = NoProposal)
  /\ [][(ret'.op = "tell" /\ pending = NoProposal) =>
          /\ ret'.outcome = "ProtocolError"
          /\ UNCHANGED <<m_active, i, pending>>]_vars

\* A second report for a proposal that was already reported.
C8_Witness == ret.op = "tell" /\ ret.outcome = "ProtocolError" /\ i > 0

\* C9: the iteration counter never decreases; it advances by exactly one on
\* every completed propose/report pair, accepted or rejected, and by nothing
\* else: propose alone does not advance it.
C9_CounterAdvancesPerPair ==
  [][/\ i' >= i
     /\ Reports => i' = i + 1
     /\ ret'.op = "ask" => i' = i
     /\ i' # i => ret'.op = "tell" /\ ret'.outcome \in {"accepted", "none"}]_vars

\* A rejected proposal advanced the counter for the second time.
C9_Witness == ret.op = "tell" /\ ret.outcome = "none" /\ i = 2

\* C10: the hyper-parameter interface has exactly 3 values, and a successful
\* set_hyper_parameters([a, g, e]) sets the active-point rate to a, the
\* update gap to int(g) and the enlargement factor to e, in that order, and
\* leaves rejection_samples unchanged.
C10_HyperParameterVector ==
  [][(ret'.op = "set_hyper_parameters" /\ ret'.outcome = "ok") =>
       /\ n_hyper_parameters = 3
       /\ Len(ret'.arg) = n_hyper_parameters
       /\ active_points_rate' = ret'.arg[1]
       /\ ellipsoid_update_gap' = int(ret'.arg[2])
       /\ enlargement_factor' = ret'.arg[3]
       /\ rejection_samples' = rejection_samples]_vars

\* A vector with a fractional gap was stored.
C10_Witness ==
  /\ ret.op = "set_hyper_parameters" /\ ret.outcome = "ok"
  /\ ret.arg[2] = 2 * One + 1 /\ ellipsoid_update_gap = 2
  /\ enlargement_factor = ret.arg[3]

\* C11: when the point cloud handed to the estimator is degenerate the refit
\* fails with an error that propagates out of ask; ask never stores and never
\* samples from an invalid ellipsoid.
C11_DegenerateRefitFails ==
  /\ ellipsoid.fitted => ellipsoid.valid
  /\ (ret.op = "ask" /\ ret.refit /\ Degenerate(ActiveParams(m_active))) =>
       ret.outcome = "LinAlgError" /\ ret.kind = "none"

\* C13: with the hyper-parameters fixed before the first ask and
\* rejection_samples = R >= 1, ask never draws from an ellipsoid that has not
\* been fitted: at every iteration i >= R the cached (A, centroid) were
\* assigned by a refit at an earlier or the same iteration.
C13_EllipsoidFittedBeforeUse ==
  (rejection_samples >= 1 /\ i >= rejection_samples) =>
    /\ ellipsoid.fitted
    /\ ret.op = "ask" => ret.outcome # "UnfittedError"

\* The first ellipsoid draw, at i = R, from the ellipsoid fitted at R - 1.
C13_Witness ==
  /\ ret.op = "ask" /\ ret.outcome = "returned" /\ ret.kind = "ellipsoid"
  /\ ~ret.refit /\ rejection_samples = 3 /\ i = 3

\* C14: ask changes no controller state other than the cached ellipsoid: the
\* iteration counter, the active set and the hyper-parameters stay as they
\* were, and where neither refit condition holds the cached ellipsoid stays
\* too, so that the draw uses the ellipsoid last fitted.
C14_AskFrame ==
  [][ret'.op = "ask" =>
       /\ UNCHANGED <<i, m_active, active_points_rate, ellipsoid_update_gap,
                      enlargement_factor, rejection_samples>>
       /\ rejection_samples = 0 => UNCHANGED ellipsoid
       /\ ( /\ rejection_samples > 0
            /\ (i + 1) % rejection_samples # 0
            /\ ~(/\ i > rejection_samples
                 /\ (i + 1 - rejection_samples) % ellipsoid_update_gap = 0) )
          => UNCHANGED ellipsoid]_vars

\* An ellipsoid draw without a refit, from an ellipsoid fitted to an active
\* set that has changed since.
C14_Witness ==
  /\ ret.op = "ask" /\ ret.outcome = "returned" /\ ret.kind = "ellipsoid"
  /\ ~ret.refit /\ ellipsoid.fitted
  /\ ellipsoid.of # ActiveParams(m_active)

\* The refit rule as specified: (i+1) % R == 0, or i >= R and
\* (i+1-R) % G == 0.
SpecifiedRefits(it, R, G) ==
  \/ (it + 1) % R = 0
  \/ it >= R /\ (it + 1 - R) % G = 0

\* C17: for every rejection_samples R >= 1, ellipsoid_update_gap G > 1 and
\* iteration i >= 0 the refit decision of ask equals that of the specified
\* rule: the strict guard i > R and the elif chaining change no iteration.
C17_RefitRuleAsSpecified ==
  (Asked /\ rejection_samples >= 1 /\ ellipsoid_update_gap > 1) =>
    (ret.refit <=>
       SpecifiedRefits(i, rejection_samples, ellipsoid_update_gap))

\* An ask at i = R, where the two guards differ, that does not refit.
C17_Witness ==
  /\ Asked /\ ~ret.refit
  /\ rejection_samples = 2 /\ ellipsoid_update_gap = 2 /\ i = 2

\* ---------------------------------- _minimum_volume_ellipsoid, step by step
\*
\* The fixed-point loop of lines 172-181 in exact rational arithmetic, for
\* points of dimension d = 1 (Q is 2 x N, X is 2 x 2).  A rational is a pair
\* <<numerator, denominator>> in lowest terms with a positive denominator.

MaxCoord == 3        \* the points of a cloud are the integers 0..MaxCoord
NPoints == 3         \* a cloud holds 1..NPoints points
MaxSteps == 2        \* passes of the loop that are followed
MaxDenominator == 99 \* ... while the weights' common denominator is at most this

Dim == 1             \* N, d = points.shape
TolInv == 1000       \* tol = 0.001 = 1 / TolInv

Abs(a) == IF a < 0 THEN -a ELSE a

RECURSIVE GCD(_, _)
GCD(a, b) == IF b = 0 THEN a ELSE GCD(b, a % b)

Rat(n, m) ==
  LET g == GCD(Abs(n), Abs(m))
      sg == IF m < 0 THEN -1 ELSE 1
  IN <<sg * (n \div g), sg * (m \div g)>>

RInt(a) == <<a, 1>>
RAdd(a, b) ==
  LET g == GCD(a[2], b[2])
  IN Rat(a[1] * (b[2] \div g) + b[1] * (a[2] \div g), (a[2] \div g) * b[2])
RSub(a, b) == RAdd(a, <<-b[1], b[2]>>)
RMul(a, b) ==
  LET g1 == GCD(Abs(a[1]), b[2])
      g2 == GCD(Abs(b[1]), a[2])
  IN Rat((a[1] \div g1) * (b[1] \div g2), (a[2] \div g2) * (b[2] \div g1))
RDiv(a, b) == RMul(a, Rat(b[2], b[1]))
RLess(a, b) == RSub(a, b)[1] < 0

RECURSIVE RSum(_)
RSum(q) == IF q = <<>> THEN RInt(0) ELSE RAdd(q[1], RSum(Tail(q)))

\* The least common denominator of the weights w.
RECURSIVE CommonDenominator(_)
CommonDenominator(w) ==
  IF w = <<>> THEN 1
  ELSE LET m == CommonDenominator(Tail(w))
       IN (w[1][2] \div GCD(w[1][2], m)) * m

\* line 171: u = np.ones(N) / N
Uniform(N) == [k \in 1..N |-> Rat(1, N)]

\* line 174: X = Q diag(u) Q^T with Q = [points; ones], as <<X00, X01, X11>>
\* (X is symmetric).
XMatrix(points, w) ==
  <<RSum([k \in 1..Len(points) |-> RMul(w[k], RInt(points[k] * points[k]))]),
    RSum([k \in 1..Len(points) |-> RMul(w[k], RInt(points[k]))]),
    RSum(w)>>

Det(X) == RSub(RMul(X[1], X[3]), RMul(X[2], X[2]))

\* line 175: M = diag(Q^T inv(X) Q), for a regular X:
\* M[k] = (X11 p^2 - 2 X01 p + X00) / det X with p = points[k].
MDiag(points, X) ==
  [k \in 1..Len(points) |->
     RDiv(RAdd(RSub(RMul(X[3], RInt(points[k] * points[k])),
                    RMul(X[2], RInt(2 * points[k]))),
               X[1]),
          Det(X))]

\* line 176: np.argmax returns the first index of the maximum.
argmax(M) ==
  CHOOSE j \in 1..Len(M) :
    /\ \A k \in 1..Len(M) : ~RLess(M[j], M[k])
    /\ \A k \in 1..(j - 1) : RLess(M[k], M[j])

\* line 177
StepSize(Mj) ==
  RDiv(RSub(Mj, RInt(Dim + 1)), RMul(RInt(Dim + 1), RSub(Mj, RInt(1))))

\* An update that overwrites the weight of jdx instead of adding to it.
NewU_assign(w, jdx, step_size) ==
  [k \in 1..Len(w) |->
     IF k = jdx THEN step_size ELSE RMul(RSub(RInt(1), step_size), w[k])]

\* lines 178-179: new_u = (1 - step_size) * u; new_u[jdx] += step_size
NewU(w, jdx, step_size) ==
  [k \in 1..Len(w) |->
     LET scaled == RMul(RSub(RInt(1), step_size), w[k])
     IN IF k = jdx THEN RAdd(scaled, step_size) ELSE scaled]

\* lines 172 and 180: err = la.norm(new_u - u) and err > tol.  err is at least
\* the largest |new_u[k] - u[k]|, so one difference above tol decides it;
\* otherwise it is decided on the squares, err^2 = n/m > 1 / TolInv^2.
ErrAboveTol(new_u, w) ==
  LET diff == [k \in 1..Len(w) |-> RSub(new_u[k], w[k])]
  IN \/ \E k \in 1..Len(w) :
          diff[k][1] # 0 /\ diff[k][2] \div Abs(diff[k][1]) < TolInv
     \/ LET e2 == RSum([k \in 1..Len(w) |-> RMul(diff[k], diff[k])])
        IN e2[1] > 0 /\ e2[2] \div e2[1] < TolInv * TolInv

Clouds == UNION {[1..n -> 0..MaxCoord] : n \in 1..NPoints}

\* lines 168-171: the state on entry to the loop (err = tol + 1 > tol).
InitMVEE ==
  /\ cloud \in Clouds
  /\ u = Uniform(Len(cloud))
  /\ mvee = [at |-> "loop", steps |-> 0, jdx |-> 0, step_size |-> RInt(0),
             c |-> RInt(0), A |-> RInt(0)]
  /\ SamplerAtRest
  /\ AbcAtRest
  /\ DrawAtRest

\* One pass of the loop body, lines 173-181.  A singular X makes la.inv raise
\* (in exact arithmetic; what rounding makes of it is minimum_volume_ellipsoid).
mvee_step ==
  /\ mvee.at = "loop"
  /\ mvee.steps < MaxSteps
  /\ CommonDenominator(u) <= MaxDenominator
  /\ LET X == XMatrix(cloud, u)
     IN IF Det(X)[1] = 0
          THEN /\ mvee' = [mvee EXCEPT !.at = "LinAlgError"]
               /\ UNCHANGED u
          ELSE LET M == MDiag(cloud, X)
                   jdx == argmax(M)
                   step_size == StepSize(M[jdx])
                   new_u == NewU(u, jdx, step_size)
               IN /\ u' = new_u
                  /\ mvee' = [mvee EXCEPT
                       !.at = IF ErrAboveTol(new_u, u) THEN "loop" ELSE "done",
                       !.steps = @ + 1,
                       !.jdx = jdx,
                       !.step_size = step_size]
  /\ UNCHANGED cloud

\* lines 182-187: c = u . points; A = inv(points^T diag(u) points - c c^T) / d
mvee_return ==
  /\ mvee.at = "done"
  /\ LET X == XMatrix(cloud, u)
         c == X[2]
         S == RSub(X[1], RMul(c, c))
     IN mvee' = [mvee EXCEPT !.at = "returned", !.c = c,
                             !.A = RDiv(RDiv(RInt(1), S), RInt(Dim))]
  /\ UNCHANGED <<cloud, u>>

NextMVEE ==
  \/ mvee_step /\ UNCHANGED <<sampler_vars, abc_vars, draw>>
  \/ mvee_return /\ UNCHANGED <<sampler_vars, abc_vars, draw>>

SpecMVEE == InitMVEE /\ [][NextMVEE]_vars

\* The weights w are non-negative and sum to 1.
ProbabilityVector(w) ==
  /\ RSum(w) = RInt(1)
  /\ \A k \in 1..Len(w) : w[k][1] >= 0

\* C18: in _minimum_volume_ellipsoid the weight vector u is a probability
\* vector throughout the loop: it starts uniform with sum 1, and every update
\* keeps sum(u) = 1 and only moves the mass s onto the single index
\* j* = argmax M, every other weight being scaled by (1 - s).
C18_WeightsStayProbabilityVector ==
  /\ [](/\ ProbabilityVector(u)
        /\ mvee.steps = 0 =>
             \A k \in 1..Len(u) : u[k][1] * Len(u) = u[k][2])
  /\ [][u' # u =>
          LET s == mvee'.step_size
              j == mvee'.jdx
              M == MDiag(cloud, XMatrix(cloud, u))
          IN /\ \A k \in 1..Len(M) : ~RLess(M[j], M[k])
             /\ ~RLess(s, RInt(0)) /\ RLess(s, RInt(1))
             /\ \A k \in 1..Len(u) :
                  IF k = j
                    THEN RSub(u'[k], u[k]) = RMul(s, RSub(RInt(1), u[k]))
                    ELSE RMul(u'[k], RInt(1)) = RMul(RSub(RInt(1), s), u[k])
     ]_vars

\* The loop made two passes that each moved mass.
C18_Witness ==
  /\ mvee.steps = 2
  /\ mvee.step_size[1] > 0
  /\ \E k \in 1..Len(u) : u[k] # Uniform(Len(u))[k]

\* ------------------------------------------------ the draw from the ellipsoid
\*
\* _reject_ellipsoid_sample and _draw_from_ellipsoid (npts = 1) in exact
\* rational arithmetic for ndims = 2.  A vector is a pair of rationals, a
\* matrix a pair of rows; eigen_vectors is kept as the sequence of its columns.

MaxAxis == 2         \* the semi-axes of a fitted ellipsoid are in 1..MaxAxis

VDot(a, b) == RAdd(RMul(a[1], b[1]), RMul(a[2], b[2]))
VScale(q, a) == <<RMul(q, a[1]), RMul(q, a[2])>>
VAdd(a, b) == <<RAdd(a[1], b[1]), RAdd(a[2], b[2])>>
VSub(a, b) == <<RSub(a[1], b[1]), RSub(a[2], b[2])>>
MatVec(M, a) == <<VDot(M[1], a), VDot(M[2], a)>>
MatScale(q, M) == <<VScale(q, M[1]), VScale(q, M[2])>>

\* la.inv of a regular 2 x 2 matrix
Inv2(M) ==
  LET det == RSub(RMul(M[1][1], M[2][2]), RMul(M[1][2], M[2][1]))
  IN MatScale(RDiv(RInt(1), det),
              <<<<M[2][2], RSub(RInt(0), M[1][2])>>,
                <<RSub(RInt(0), M[2][1]), M[1][1]>>>>)

\* np.sqrt of a rational that is a perfect square
ISqrt(n) == CHOOSE r \in 0..n : r * r = n
RSqrt(q) == <<ISqrt(q[1]), ISqrt(q[2])>>

\* Orthonormal bases of the plane with rational entries, as pairs of columns.
UnitVectors ==
  {<<RInt(1), RInt(0)>>, <<RInt(0), RInt(1)>>,
   <<RInt(-1), RInt(0)>>, <<RInt(0), RInt(-1)>>,
   <<Rat(3, 5), Rat(4, 5)>>, <<Rat(-4, 5), Rat(3, 5)>>,
   <<Rat(-3, 5), Rat(-4, 5)>>, <<Rat(4, 5), Rat(-3, 5)>>}

Bases ==
  {b \in UnitVectors \X UnitVectors : VDot(b[1], b[2]) = RInt(0)}

\* The matrix A of the ellipsoid (x-c)^T A (x-c) = 1 with semi-axes r[k]
\* along the columns b[k]: A = sum over k of b[k] b[k]^T / r[k]^2.
EllipsoidMatrix(b, r) ==
  LET w == [k \in 1..2 |-> Rat(1, r[k] * r[k])]
      entry(m, n) == RAdd(RMul(w[1], RMul(b[1][m], b[1][n])),
                          RMul(w[2], RMul(b[2][m], b[2][n])))
  IN <<<<entry(1, 1), entry(1, 2)>>, <<entry(2, 1), entry(2, 2)>>>>

FittedEllipsoids ==
  {EllipsoidMatrix(b, r) :
     b \in {<<<<RInt(1), RInt(0)>>, <<RInt(0), RInt(1)>>>>,
            <<<<Rat(3, 5), Rat(4, 5)>>, <<Rat(-4, 5), Rat(3, 5)>>>>},
     r \in (1..MaxAxis) \X (1..MaxAxis)}

\* Enlargement factors above 1 (with a rational square root).
Factors == {Rat(9, 4), RInt(4)}

Centroids == {<<RInt(0), RInt(0)>>, <<RInt(1), RInt(-2)>>}

\* line 216, rs = np.random.uniform(0, 1, npts): values of [0, 1) with a
\* rational square root.
Radii == {RInt(0), Rat(1, 4), Rat(81, 100)}

\* line 219, pt = np.random.normal(0, 1, [npts, ndims]): vectors with a
\* rational norm.
Normals == {<<RInt(3), RInt(4)>>, <<RInt(-4), RInt(3)>>,
            <<RInt(0), RInt(-1)>>, <<Rat(1, 2), RInt(0)>>}

\* line 209, la.eig(covmat): unit eigenvectors, in an order and with signs
\* that the routine is free to choose, each with its eigenvalue.
eig(covmat) ==
  {[eigen_values |-> <<VDot(MatVec(covmat, b[1]), b[1]),
                       VDot(MatVec(covmat, b[2]), b[2])>>,
    eigen_vectors |-> b] :
     b \in {c \in Bases :
              \A k \in 1..2 :
                MatVec(covmat, c[k]) =
                  VScale(VDot(MatVec(covmat, c[k]), c[k]), c[k])}}

\* line 210: idx = (-eigen_values).argsort()[::-1][:ndims], the indices by
\* ascending eigenvalue (equal eigenvalues in either order).
argsort_reversed(eigen_values) ==
  {idx \in {<<1, 2>>, <<2, 1>>} :
     ~RLess(eigen_values[idx[2]], eigen_values[idx[1]])}

\* Eigenvectors left in the order la.eig returned them.
Columns_unsorted(eigen_vectors, idx) == eigen_vectors

\* line 212: v = eigen_vectors[:, idx]
Columns(eigen_vectors, idx) ==
  <<eigen_vectors[idx[1]], eigen_vectors[idx[2]]>>

\* _draw_from_ellipsoid(covmat, cent, 1)[0]: the points it can return
\* (lines 209-240, ndims = 2).
draw_from_ellipsoid(covmat, cent) ==
  {LET e == <<eg[1].eigen_values[eg[2][1]], eg[1].eigen_values[eg[2][2]]>>
       v == Columns(eg[1].eigen_vectors, eg[2])
       fac == RDiv(RSqrt(rs), RSqrt(VDot(pt, pt)))
       d == <<RSqrt(e[1]), RSqrt(e[2])>>
       pnt == VScale(fac, pt)
       scaled == <<RMul(pnt[1], d[1]), RMul(pnt[2], d[2])>>
   IN VAdd(VAdd(VScale(scaled[1], v[1]), VScale(scaled[2], v[2])), cent) :
     eg \in {g \in eig(covmat) \X {<<1, 2>>, <<2, 1>>} :
               g[2] \in argsort_reversed(g[1].eigen_values)},
     rs \in Radii, pt \in Normals}

\* lines 194-195
reject_ellipsoid_sample_2d(f, A, centroid) ==
  draw_from_ellipsoid(Inv2(MatScale(RDiv(RInt(1), f), A)), centroid)

\* The arguments ask hands over on lines 99-101: the factor, the fitted A and
\* the centroid.
InitDraw ==
  /\ \E f \in Factors, A \in FittedEllipsoids, c \in Centroids :
       draw = [at |-> "called", f |-> f, A |-> A, cent |-> c, x |-> c]
  /\ SamplerAtRest
  /\ AbcAtRest
  /\ MveeAtRest

reject_sample ==
  /\ draw.at = "called"
  /\ \E x \in reject_ellipsoid_sample_2d(draw.f, draw.A, draw.cent) :
       draw' = [draw EXCEPT !.at = "returned", !.x = x]
  /\ UNCHANGED <<sampler_vars, abc_vars, mvee_vars>>

NextDraw == reject_sample

SpecDraw == InitDraw /\ [][NextDraw]_vars

\* (x - c)^T (A / f) (x - c)
Mahalanobis(f, A, c, x) ==
  VDot(MatVec(MatScale(RDiv(RInt(1), f), A), VSub(x, c)), VSub(x, c))

\* C12: for every enlargement factor f > 1 and fitted ellipsoid (A, c), every
\* point x returned by the ellipsoid draw lies inside the enlarged ellipsoid:
\* (x-c)^T (A/f) (x-c) <= 1.
C12_DrawInsideEnlargedEllipsoid ==
  draw.at = "returned" =>
    ~RLess(RInt(1), Mahalanobis(draw.f, draw.A, draw.cent, draw.x))

\* A draw close to the boundary of a tilted ellipsoid with unequal axes.
C12_Witness ==
  /\ draw.at = "returned"
  /\ draw.A[1][2] # RInt(0)
  /\ draw.A[1][1] # draw.A[2][2]
  /\ Mahalanobis(draw.f, draw.A, draw.cent, draw.x) = Rat(81, 100)

\* The k-th smallest element of the set S of integers.
Kth(S, k) == CHOOSE c \in S : Cardinality({b \in S : b <= c}) = k

\* C15: after xs = ask(n), tell(fx) with a scalar fx returns xs if
\* fx < threshold and None otherwise; tell(fx) with a list of length n returns
\* exactly the samples xs[c] with fx[c] < threshold, in their original order,
\* and None when no entry is below the threshold.  Every sample tell returns
\* was produced by the most recent ask, and tell before any ask returns none.
C15_TellFilters ==
  abc_ret.op = "tell" =>
    /\ xs.none => abc_ret.value = None
    /\ (~xs.none /\ abc_ret.arg.scalar) =>
         /\ abc_ret.outcome = "ok"
         /\ abc_ret.value = IF abc_ret.arg.v < threshold THEN xs ELSE None
    /\ (~xs.none /\ ~abc_ret.arg.scalar
          /\ Len(abc_ret.arg.v) = Len(xs.v)) =>
         LET fx == abc_ret.arg.v
             S == {c \in 1..Len(fx) : fx[c] < threshold}
             r == abc_ret.value
         IN /\ abc_ret.outcome = "ok"
            /\ S = {} => r = None
            /\ S # {} =>
                 /\ ~r.none
                 /\ Len(r.v) = Cardinality(S)
                 /\ \A k \in 1..Len(r.v) : r.v[k] = xs.v[Kth(S, k)]
    /\ (~abc_ret.value.none) =>
         \A k \in 1..Len(abc_ret.value.v) :
           \E c \in 1..Len(xs.v) : abc_ret.value.v[k] = xs.v[c]

\* A list tell that kept the second of two different samples only.
C15_Witness ==
  /\ abc_ret.op = "tell" /\ abc_ret.outcome = "ok"
  /\ ~xs.none /\ Len(xs.v) = 2 /\ xs.v[1] # xs.v[2]
  /\ ~abc_ret.arg.scalar
  /\ abc_ret.value = List(<<xs.v[2]>>)

\* C16: in every reachable state of an ABCRejection sampler, constructed with
\* any threshold argument, threshold() is positive; set_threshold(t) with
\* t <= 0 raises ValueError and leaves the threshold unchanged.
C16_ThresholdPositive ==
  /\ [](threshold > 0)
  /\ [][(abc_ret'.op = "set_threshold" /\ abc_ret'.arg.v <= 0) =>
          abc_ret'.outcome = "ValueError" /\ UNCHANGED threshold]_vars
====
